---- MODULE Spec2Model ----
(***************************************************************************)
(* Resource handlers of the azurerm provider:                              *)
(*   azurerm_virtual_machine_extension                                     *)
(*       (azurerm/resource_arm_virtual_machine_extension.go)               *)
(*   azurerm_data_factory_integration_runtime                              *)
(*       (azurerm/resource_arm_data_factory_integration_runtime.go)        *)
(*                                                                         *)
(* One behaviour follows one resource instance (res) through the host's    *)
(* invocations of Create, Update, Read, Delete and import.  A handler is   *)
(* cut into one action per remote call, so that changes made by other      *)
(* actors to the remote system can fall between two calls of a handler.    *)
(*                                                                         *)
(* Strings with structure are modelled by their structure:                 *)
(*   - a resource ID is the sequence of its "/"-separated segments,        *)
(*     the empty ID is << >>;                                               *)
(*   - a JSON text is [kind, pairs]: kind "empty" is the empty string,     *)
(*     "object" an object whose members are written in the order of pairs, *)
(*     "array" a valid JSON value that is no object;                       *)
(*   - a decoded JSON object and a tag map are sets of <<key, value>>;     *)
(*   - a pointer is a record with a field nil.                             *)
(***************************************************************************)
EXTENDS Integers, Sequences, FiniteSets, TLC

VARIABLES
    res,            \* which resource type this behaviour follows: "vmext" or "ir"
    requireImport,  \* features.ShouldResourcesBeImported() / requireResourcesToBeImported
    cfg,            \* the configuration of the VM extension
    d,              \* schema.ResourceData of the VM extension (id and attributes)
    vmRemote,       \* the VM extensions held by the remote system, by key
    irCfg,          \* the configuration of the integration runtime
    ird,            \* schema.ResourceData of the integration runtime
    irRemote,       \* the integration runtimes held by the remote system, by key
    pc,             \* position of the running handler; "idle" or "done" between invocations
    op,             \* the entry point the host invoked last
    isNew,          \* d.IsNewResource()
    result,         \* what the invocation returned: "none" while running, "ok", an error, a panic
    errId,          \* the ID carried by tf.ImportAsExistsError
    calls,          \* the remote calls issued by the running invocation, in order, with outcome
    key,            \* resGroup, parent name and name as resolved by the running handler
    vmPayload,      \* compute.VirtualMachineExtension built by Create/Update
    irPayload,      \* datafactory.IntegrationRuntimeResource built by Create/Update
    lro,            \* long-running operation accepted by the remote system and not yet complete
    idAtStart,      \* d.Id() when the running invocation began
    sinceDelete,    \* Delete has returned success, and since then no other actor has
                    \* changed the remote system and no Create or Update was invoked
    nOps,           \* host invocations so far
    nEnv            \* changes by other actors so far

vars == <<res, requireImport, cfg, d, vmRemote, irCfg, ird, irRemote, pc, op, isNew,
          result, errId, calls, key, vmPayload, irPayload, lro, idAtStart,
          sinceDelete, nOps, nEnv>>

\* Bounds of the model.
MaxOps == 3
MaxEnv == 1

----------------------------------------------------------------------------
\* Resource IDs

NoId == << >>
Sub == "sub"

VMKey == <<"rg1", "vm1", "e1">>
VMKeys == {VMKey}
IRKey == <<"rg1", "df1", "ir1">>
IRKeys == {IRKey}
NoKey == <<"", "", "">>

\* /subscriptions/{sub}/resourceGroups/{rg}/providers/Microsoft.Compute/virtualMachines/{vm}
VMIdOf(rg, vm) ==
    <<"subscriptions", Sub, "resourceGroups", rg, "providers", "Microsoft.Compute",
      "virtualMachines", vm>>

\* the ID the remote system reports for the extension at key k
VMExtensionIdOf(k) == VMIdOf(k[1], k[2]) \o <<"extensions", k[3]>>

\* the ID the remote system reports for the integration runtime at key k
IRIdOf(k) ==
    <<"subscriptions", Sub, "resourceGroups", k[1], "providers", "Microsoft.DataFactory",
      "factories", k[2], "integrationruntimes", k[3]>>

GoodVMId == VMIdOf("rg1", "vm1")
NoVMSegmentId ==
    <<"subscriptions", Sub, "resourceGroups", "rg1", "providers", "Microsoft.Compute",
      "disks", "disk1">>
BadId == <<"not-a-resource-id">>

ReservedSegments == {"subscriptions", "resourceGroups", "providers"}

SegmentOf(id, name) ==
    IF \E i \in 1..(Len(id) \div 2) : id[2 * i - 1] = name
    THEN id[2 * (CHOOSE i \in 1..(Len(id) \div 2) : id[2 * i - 1] = name)]
    ELSE ""

\* azure.ParseAzureResourceID: the segments are read in pairs; an odd number of
\* segments or no subscription is an error; resourceGroups goes to ResourceGroup and
\* every other pair to Path.
ParseAzureResourceID(id) ==
    LET n == Len(id) \div 2
        good == /\ Len(id) % 2 = 0
                /\ \E i \in 1..n : id[2 * i - 1] = "subscriptions"
        names == {id[2 * i - 1] : i \in 1..n} \ ReservedSegments
    IN  [ok |-> good,
         ResourceGroup |-> IF good THEN SegmentOf(id, "resourceGroups") ELSE "",
         Path |-> IF good THEN [s \in names |-> SegmentOf(id, s)] ELSE [s \in {} |-> ""]]

\* id.Path[name]: a Go map yields "" for a key it does not hold
PathGet(p, name) == IF name \in DOMAIN p THEN p[name] ELSE ""

----------------------------------------------------------------------------
\* JSON texts, locations, tags

JEmpty == [kind |-> "empty", pairs |-> << >>]
JEmptyObject == [kind |-> "object", pairs |-> << >>]
JObject == [kind |-> "object", pairs |-> << <<"b", 2>>, <<"a", 1>> >>]
JArray == [kind |-> "array", pairs |-> << >>]
JSecret == [kind |-> "object", pairs |-> << <<"a", 9>> >>]

\* the object keys in the order encoding/json writes them
JsonKeyOrder == <<"a", "b">>

NilMap == [nil |-> TRUE, m |-> {}]
PtrMap(m) == [nil |-> FALSE, m |-> m]

\* structure.ExpandJsonFromString: json.Unmarshal into map[string]interface{}; a text
\* that is no JSON object is an error
ExpandJsonFromString(text) ==
    [ok |-> text.kind = "object",
     m |-> IF text.kind = "object" THEN {text.pairs[i] : i \in 1..Len(text.pairs)} ELSE {}]

\* structure.FlattenJsonToString: "" for a map of length 0, else json.Marshal, which
\* writes the keys sorted
FlattenJsonToString(m) ==
    IF m = {} THEN JEmpty
    ELSE LET ks == SelectSeq(JsonKeyOrder, LAMBDA k : \E p \in m : p[1] = k)
         IN  [kind |-> "object",
              pairs |-> [i \in 1..Len(ks) |-> CHOOSE p \in m : p[1] = ks[i]]]

\* azure.NormalizeLocation: lower case, spaces removed
NormalizeLocation(l) ==
    CASE l = "West US" -> "westus"
      [] l = "westus" -> "westus"
      [] OTHER -> l

\* tags.Expand and tags.Flatten keep every key with its value
TagsExpand(t) == t
TagsFlatten(t) == t

----------------------------------------------------------------------------
\* The remote system

Faults == {"none", "error", "noid"}
Outcomes == {"ok", "error"}

VMZero ==
    [present |-> FALSE, id |-> NoId, name |-> "", location |-> "", publisher |-> "",
     type |-> "", thv |-> "", auto |-> FALSE, settings |-> NilMap,
     protected |-> NilMap, tags |-> {}]

\* an extension put at key k by another actor; its response carries a
\* protectedSettings value, which the field of the response type allows
VMForeign(k) ==
    [present |-> TRUE, id |-> VMExtensionIdOf(k), name |-> k[3], location |-> "eastus",
     publisher |-> "px", type |-> "tx", thv |-> "9.9", auto |-> FALSE,
     settings |-> PtrMap({<<"a", 1>>}), protected |-> PtrMap({<<"a", 7>>}),
     tags |-> {<<"owner", "other">>}]

\* client.Get: the object at k; 404 when there is none (also for a key the remote
\* system cannot hold, such as one with an empty segment); f is what goes wrong:
\* "error" a failure that is no 404, "noid" a response without an ID
RemoteGet(store, k, f, zero) ==
    IF f = "error" THEN [status |-> "error", idNil |-> TRUE, obj |-> zero]
    ELSE IF k \in DOMAIN store /\ store[k].present
         THEN [status |-> "ok", idNil |-> (f = "noid"), obj |-> store[k]]
         ELSE [status |-> "notfound", idNil |-> TRUE, obj |-> zero]

\* utils.ResponseWasNotFound
ResponseWasNotFound(resp) == resp.status = "notfound"

\* what the remote system holds at k once CreateOrUpdate of payload p has completed:
\* exactly what was submitted (the protected settings are never returned)
VMStored(k, p) ==
    [present |-> TRUE, id |-> VMExtensionIdOf(k), name |-> k[3], location |-> p.location,
     publisher |-> p.publisher, type |-> p.type, thv |-> p.thv, auto |-> p.auto,
     settings |-> p.settings, protected |-> NilMap, tags |-> p.tags]

RemotePut(store, k, obj) == IF k \in DOMAIN store THEN [store EXCEPT ![k] = obj] ELSE store
RemoteRemove(store, k, zero) ==
    IF k \in DOMAIN store THEN [store EXCEPT ![k] = zero] ELSE store

\* *datafactory.IntegrationRuntimeComputeProperties
NilCP ==
    [nil |-> TRUE, Location |-> "", NodeSize |-> "", NumberOfNodes |-> 0,
     MaxParallelExecutionsPerNode |-> 0, vnetNil |-> TRUE, VNetID |-> "", Subnet |-> ""]

IRZeroPayload == [type |-> "", description |-> "", cp |-> NilCP]

Call(m, k, out) == [m |-> m, k |-> k, out |-> out]
NoLro == [kind |-> "none", k |-> NoKey]

----------------------------------------------------------------------------
\* azurerm_virtual_machine_extension: configuration and schema

VMNames == {"e1"}
VMIdValues == {NoId, GoodVMId, NoVMSegmentId, BadId}
VMNameValues == {"", "vm1"}
ResourceGroupValues == {"", "rg1"}
VMLocations == {"West US"}
Publishers == {"p1"}
SettingsValues == {JEmpty, JEmptyObject, JObject, JArray}
ProtectedSettingsValues == {JEmpty, JSecret, JArray}
AutoUpgradeValues == {TRUE}
TagValues == {{<<"env", "x">>}}

VMZeroPayload ==
    [location |-> "", publisher |-> "", type |-> "", thv |-> "", auto |-> FALSE,
     settings |-> NilMap, protected |-> NilMap, tags |-> {}]

VMEmptyData ==
    [id |-> NoId, name |-> "", virtual_machine_id |-> NoId, virtual_machine_name |-> "",
     resource_group_name |-> "", location |-> "", publisher |-> "", type |-> "",
     type_handler_version |-> "", auto_upgrade_minor_version |-> FALSE,
     settings |-> JEmpty, protected_settings |-> JEmpty, tags |-> {}]

\* the parents a configuration can name: virtual_machine_id, virtual_machine_name
\* and resource_group_name
VMParents ==
    [virtual_machine_id : VMIdValues, virtual_machine_name : VMNameValues,
     resource_group_name : ResourceGroupValues]

\* the settings a configuration can have: settings and protected_settings
VMSettings == [settings : SettingsValues, protected_settings : ProtectedSettingsValues]

\* the configurations of the schema; a behaviour keeps the one it starts with
VMConfigs ==
    {[VMEmptyData EXCEPT !.name = n,
                         !.virtual_machine_id = p.virtual_machine_id,
                         !.virtual_machine_name = p.virtual_machine_name,
                         !.resource_group_name = p.resource_group_name,
                         !.location = l,
                         !.publisher = pb, !.type = "t1", !.type_handler_version = "1.0",
                         !.auto_upgrade_minor_version = a,
                         !.settings = st.settings,
                         !.protected_settings = st.protected_settings,
                         !.tags = t] :
        n \in VMNames, p \in VMParents, l \in VMLocations, pb \in Publishers,
        a \in AutoUpgradeValues, st \in VMSettings, t \in TagValues}

\* ConflictsWith of virtual_machine_id and virtual_machine_name: the host rejects a
\* configuration that sets both and does not invoke the handler
VMConflictsWith(c) == c.virtual_machine_id # NoId /\ c.virtual_machine_name # ""

----------------------------------------------------------------------------
\* resourceArmVirtualMachineExtensionsCreateUpdate

\* mutant: the existence check is made in every invocation
ShouldCheckExistingAlways(flag, new) == TRUE

\* the existence check is made for a new resource when resources must be imported
ShouldCheckExisting(flag, new) == flag /\ new

\* resGroup, vmName and name as they are when the existence check is made
VMExistenceCheckKey(dd) ==
    <<dd.resource_group_name, dd.virtual_machine_name, dd.name>>

\* mutant: virtual_machine_name is taken without asking for resource_group_name
VMResolveParentAnyGroup(dd) ==
    IF dd.virtual_machine_name = ""
    THEN IF dd.virtual_machine_id = NoId
         THEN [err |-> "err_one_of_vm", resGroup |-> dd.resource_group_name, vmName |-> ""]
         ELSE LET id == ParseAzureResourceID(dd.virtual_machine_id)
              IN  IF ~id.ok
                  THEN [err |-> "err_parse_id", resGroup |-> dd.resource_group_name,
                        vmName |-> ""]
                  ELSE IF "virtualMachines" \notin DOMAIN id.Path
                  THEN [err |-> "err_no_vm_segment", resGroup |-> id.ResourceGroup,
                        vmName |-> ""]
                  ELSE [err |-> "none", resGroup |-> id.ResourceGroup,
                        vmName |-> id.Path["virtualMachines"]]
    ELSE [err |-> "none", resGroup |-> dd.resource_group_name,
          vmName |-> dd.virtual_machine_name]

\* the parent of the extension: from virtual_machine_id when virtual_machine_name is
\* empty, else from virtual_machine_name and resource_group_name
VMResolveParent(dd) ==
    IF dd.virtual_machine_name = ""
    THEN IF dd.virtual_machine_id = NoId
         THEN [err |-> "err_one_of_vm", resGroup |-> dd.resource_group_name, vmName |-> ""]
         ELSE LET id == ParseAzureResourceID(dd.virtual_machine_id)
              IN  IF ~id.ok
                  THEN [err |-> "err_parse_id", resGroup |-> dd.resource_group_name,
                        vmName |-> ""]
                  ELSE IF "virtualMachines" \notin DOMAIN id.Path
                  THEN [err |-> "err_no_vm_segment", resGroup |-> id.ResourceGroup,
                        vmName |-> ""]
                  ELSE [err |-> "none", resGroup |-> id.ResourceGroup,
                        vmName |-> id.Path["virtualMachines"]]
    ELSE IF dd.resource_group_name = ""
         THEN [err |-> "err_rg_required", resGroup |-> "",
               vmName |-> dd.virtual_machine_name]
         ELSE [err |-> "none", resGroup |-> dd.resource_group_name,
               vmName |-> dd.virtual_machine_name]

\* Settings of the payload: left nil for the empty string, else the decoded object
VMExpandSettings(text) ==
    IF text = JEmpty THEN [err |-> FALSE, ptr |-> NilMap]
    ELSE LET e == ExpandJsonFromString(text)
         IN  [err |-> ~e.ok, ptr |-> IF e.ok THEN PtrMap(e.m) ELSE NilMap]

\* the payload, or the first error on the way to it
VMBuildExtension(dd) ==
    LET parent == VMResolveParent(dd)
        st == VMExpandSettings(dd.settings)
        ps == VMExpandSettings(dd.protected_settings)
        err == IF parent.err # "none" THEN parent.err
               ELSE IF st.err THEN "err_settings"
               ELSE IF ps.err THEN "err_protected_settings"
               ELSE "none"
    IN  [err |-> err,
         k |-> <<parent.resGroup, parent.vmName, dd.name>>,
         payload |-> [location |-> NormalizeLocation(dd.location),
                      publisher |-> dd.publisher, type |-> dd.type,
                      thv |-> dd.type_handler_version,
                      auto |-> dd.auto_upgrade_minor_version,
                      settings |-> st.ptr, protected |-> ps.ptr,
                      tags |-> TagsExpand(dd.tags)]]

----------------------------------------------------------------------------
\* Frames and the return of a handler

configVars == <<res, requireImport>>
vmVars == <<cfg, d, vmRemote>>
irVars == <<irCfg, ird, irRemote>>
localVars == <<key, vmPayload, irPayload>>
histVars == <<op, isNew, idAtStart, nOps, nEnv>>

\* the handler returns r
Return(r) ==
    /\ pc' = "done"
    /\ result' = r
    /\ sinceDelete' = (sinceDelete \/ (op = "Delete" /\ r = "ok"))

\* the handler goes on to position p
Goto(p) ==
    /\ pc' = p
    /\ UNCHANGED <<result, sinceDelete>>

\* the host invokes entry point o
Invoke(o, new, id, p, r) ==
    /\ pc \in {"idle", "done"}
    /\ nOps < MaxOps
    /\ nOps' = nOps + 1
    /\ op' = o
    /\ isNew' = new
    /\ idAtStart' = id
    /\ sinceDelete' = (sinceDelete /\ o \notin {"Create", "Update"})
    /\ calls' = << >>
    /\ errId' = NoId
    /\ lro' = NoLro
    /\ key' = NoKey
    /\ vmPayload' = VMZeroPayload
    /\ irPayload' = IRZeroPayload
    /\ pc' = p
    /\ result' = r
    /\ nEnv' = nEnv

----------------------------------------------------------------------------
\* The host and azurerm_virtual_machine_extension

\* d as the handler sees it in Create: the configuration, no ID
VMCreateData(c) == [c EXCEPT !.id = NoId]

\* d as the handler sees it in Update: the configuration over the stored state;
\* resource_group_name is Computed, so the stored value stands in when it is not
\* configured
VMUpdateData(c, dd) ==
    [c EXCEPT !.id = dd.id,
              !.resource_group_name =
                  IF c.resource_group_name = "" THEN dd.resource_group_name
                  ELSE c.resource_group_name]

VMHostCreate ==
    /\ res = "vmext"
    /\ d.id = NoId
    /\ IF VMConflictsWith(cfg)
       THEN /\ Invoke("Create", TRUE, d.id, "done", "err_conflicts_with")
            /\ d' = d
       ELSE /\ Invoke("Create", TRUE, d.id, "cu_check", "none")
            /\ d' = VMCreateData(cfg)
    /\ UNCHANGED <<configVars, cfg, vmRemote, irVars>>

VMHostUpdate ==
    /\ res = "vmext"
    /\ d.id # NoId
    /\ ~VMConflictsWith(cfg)
    /\ Invoke("Update", FALSE, d.id, "cu_check", "none")
    /\ d' = VMUpdateData(cfg, d)
    /\ UNCHANGED <<configVars, cfg, vmRemote, irVars>>

VMHostRead ==
    /\ res = "vmext"
    /\ d.id # NoId
    /\ Invoke("Read", FALSE, d.id, "read", "none")
    /\ UNCHANGED <<configVars, vmVars, irVars>>

VMHostDelete ==
    /\ res = "vmext"
    /\ d.id # NoId
    /\ Invoke("Delete", FALSE, d.id, "delete", "none")
    /\ UNCHANGED <<configVars, vmVars, irVars>>

\* schema.ImportStatePassthrough: the ID the user gives becomes d.Id()
VMHostImport ==
    /\ res = "vmext"
    /\ d.id = NoId
    /\ \E id \in {VMExtensionIdOf(VMKey), BadId} :
          /\ Invoke("Import", FALSE, d.id, "done", "ok")
          /\ d' = [d EXCEPT !.id = id]
    /\ UNCHANGED <<configVars, cfg, vmRemote, irVars>>

\* another actor creates or deletes the extension
VMExternalChange ==
    /\ res = "vmext"
    /\ nEnv < MaxEnv
    /\ nEnv' = nEnv + 1
    /\ \E k \in VMKeys :
          vmRemote' = [vmRemote EXCEPT ![k] = IF vmRemote[k].present THEN VMZero
                                              ELSE VMForeign(k)]
    /\ sinceDelete' = FALSE
    /\ UNCHANGED <<configVars, cfg, d, irVars, localVars, pc, op, isNew, result, errId,
                   calls, lro, idAtStart, nOps>>

----------------------------------------------------------------------------
\* resourceArmVirtualMachineExtensionsCreateUpdate, step by step

\* lines 127-145: the existence check
VMCreateUpdate_Check ==
    /\ res = "vmext"
    /\ pc = "cu_check"
    /\ IF ShouldCheckExisting(requireImport, isNew)
       THEN \E f \in Faults :
              LET k == VMExistenceCheckKey(d)
                  existing == RemoteGet(vmRemote, k, f, VMZero)
              IN  /\ calls' = Append(calls, Call("Get", k,
                                     IF existing.status = "ok" /\ existing.idNil THEN "noid"
                                     ELSE existing.status))
                  /\ IF existing.status = "error"
                     THEN Return("err_check_presence") /\ errId' = errId
                     ELSE IF ~existing.idNil /\ existing.obj.id # NoId
                     THEN Return("err_exists") /\ errId' = existing.obj.id
                     ELSE Goto("cu_build") /\ errId' = errId
       ELSE Goto("cu_build") /\ UNCHANGED <<calls, errId>>
    /\ UNCHANGED <<configVars, vmVars, irVars, localVars, histVars, lro>>

\* lines 147-200: the parent and the payload
VMCreateUpdate_Build ==
    /\ res = "vmext"
    /\ pc = "cu_build"
    /\ LET b == VMBuildExtension(d)
       IN  IF b.err # "none"
           THEN Return(b.err) /\ UNCHANGED <<key, vmPayload>>
           ELSE Goto("cu_submit") /\ key' = b.k /\ vmPayload' = b.payload
    /\ UNCHANGED <<configVars, vmVars, irVars, irPayload, histVars, lro, calls, errId>>

\* lines 202-205: client.CreateOrUpdate
VMCreateUpdate_Submit ==
    /\ res = "vmext"
    /\ pc = "cu_submit"
    /\ \E o \in Outcomes :
          /\ calls' = Append(calls, Call("CreateOrUpdate", key, o))
          /\ IF o = "error"
             THEN Return("err_create_or_update") /\ lro' = lro
             ELSE Goto("cu_wait") /\ lro' = [kind |-> "create", k |-> key]
    /\ UNCHANGED <<configVars, vmVars, irVars, localVars, histVars, errId>>

\* the wait of Create/Update returns ok only when the operation has completed
VMCreateWaitDone(o) == o = "ok"

\* lines 207-209: future.WaitForCompletionRef; the operation completes, and the
\* remote system then holds the payload, or it fails
VMCreateUpdate_Wait ==
    /\ res = "vmext"
    /\ pc = "cu_wait"
    /\ \E o \in Outcomes :
          /\ calls' = Append(calls, Call("Wait", key, o))
          /\ lro' = NoLro
          /\ IF VMCreateWaitDone(o)
             THEN /\ vmRemote' = RemotePut(vmRemote, key, VMStored(key, vmPayload))
                  /\ Goto("cu_refetch")
             ELSE /\ vmRemote' = vmRemote
                  /\ Return("err_wait")
    /\ UNCHANGED <<configVars, cfg, d, irVars, localVars, histVars, errId>>

\* mutant: the ID of the re-fetched object is not looked at
VMReadHasNoIdUnchecked(read) == FALSE

\* line 216: the re-fetched object has no ID
VMReadHasNoId(read) == read.idNil

\* lines 211-220: the re-fetch and d.SetId
VMCreateUpdate_Refetch ==
    /\ res = "vmext"
    /\ pc = "cu_refetch"
    /\ \E f \in Faults :
          LET read == RemoteGet(vmRemote, key, f, VMZero)
          IN  /\ calls' = Append(calls, Call("Get", key,
                                 IF read.status = "ok" /\ read.idNil THEN "noid"
                                 ELSE read.status))
              /\ IF read.status # "ok"
                 THEN Return("err_refetch") /\ d' = d
                 ELSE IF VMReadHasNoId(read)
                 THEN Return("err_no_id") /\ d' = d
                 ELSE Goto("read") /\ d' = [d EXCEPT !.id = read.obj.id]
    /\ UNCHANGED <<configVars, cfg, vmRemote, irVars, localVars, histVars, lro, errId>>

----------------------------------------------------------------------------
\* resourceArmVirtualMachineExtensionsRead

\* mutant: Read also sets protected_settings from the response
VMReadSetWithProtected(dd, id, resp) ==
    [dd EXCEPT !.name = resp.name,
               !.location = NormalizeLocation(resp.location),
               !.virtual_machine_name = PathGet(id.Path, "virtualMachines"),
               !.resource_group_name = id.ResourceGroup,
               !.publisher = resp.publisher,
               !.type = resp.type,
               !.type_handler_version = resp.thv,
               !.auto_upgrade_minor_version = resp.auto,
               !.settings = IF resp.settings.nil THEN dd.settings
                            ELSE FlattenJsonToString(resp.settings.m),
               !.protected_settings = IF resp.protected.nil THEN JEmpty
                                      ELSE FlattenJsonToString(resp.protected.m),
               !.tags = TagsFlatten(resp.tags)]

\* lines 247-273: the attributes after a successful Get. d.Set("virtual_machine_id", id)
\* is given the parsed *ResourceID, which is no string: d.Set returns an error that
\* is dropped, and the attribute keeps its value. Settings are set only when the
\* response has them.
VMReadSet(dd, id, resp) ==
    [dd EXCEPT !.name = resp.name,
               !.location = NormalizeLocation(resp.location),
               !.virtual_machine_name = PathGet(id.Path, "virtualMachines"),
               !.resource_group_name = id.ResourceGroup,
               !.publisher = resp.publisher,
               !.type = resp.type,
               !.type_handler_version = resp.thv,
               !.auto_upgrade_minor_version = resp.auto,
               !.settings = IF resp.settings.nil THEN dd.settings
                            ELSE FlattenJsonToString(resp.settings.m),
               !.tags = TagsFlatten(resp.tags)]

\* mutant: not-found does not clear the ID
VMReadOnFailureKeepsId(resp, dd) ==
    IF ResponseWasNotFound(resp)
    THEN [ret |-> "ok", data |-> dd]
    ELSE [ret |-> "err_read", data |-> dd]

\* lines 239-245: what Read does with a failed Get
VMReadOnFailure(resp, dd) ==
    IF ResponseWasNotFound(resp)
    THEN [ret |-> "ok", data |-> [dd EXCEPT !.id = NoId]]
    ELSE [ret |-> "err_read", data |-> dd]

VMRead ==
    /\ res = "vmext"
    /\ pc = "read"
    /\ LET id == ParseAzureResourceID(d.id)
           k == <<id.ResourceGroup, PathGet(id.Path, "virtualMachines"),
                  PathGet(id.Path, "extensions")>>
       IN  IF ~id.ok
           THEN Return("err_parse_id") /\ UNCHANGED <<d, calls>>
           ELSE \E f \in {"none", "error"} :
                  LET resp == RemoteGet(vmRemote, k, f, VMZero)
                  IN  /\ calls' = Append(calls, Call("Get", k, resp.status))
                      /\ IF resp.status # "ok"
                         THEN /\ Return(VMReadOnFailure(resp, d).ret)
                              /\ d' = VMReadOnFailure(resp, d).data
                         ELSE /\ Return("ok")
                              /\ d' = VMReadSet(d, id, resp.obj)
    /\ UNCHANGED <<configVars, cfg, vmRemote, irVars, localVars, histVars, lro, errId>>

----------------------------------------------------------------------------
\* resourceArmVirtualMachineExtensionsDelete

\* lines 280-291: client.Delete
VMDelete_Call ==
    /\ res = "vmext"
    /\ pc = "delete"
    /\ LET id == ParseAzureResourceID(d.id)
           k == <<id.ResourceGroup, PathGet(id.Path, "virtualMachines"),
                  PathGet(id.Path, "extensions")>>
       IN  IF ~id.ok
           THEN Return("err_parse_id") /\ UNCHANGED <<calls, lro, key>>
           ELSE \E o \in Outcomes :
                  /\ calls' = Append(calls, Call("Delete", k, o))
                  /\ key' = k
                  /\ IF o = "error"
                     THEN Return("err_delete") /\ lro' = lro
                     ELSE Goto("delete_wait") /\ lro' = [kind |-> "delete", k |-> k]
    /\ UNCHANGED <<configVars, vmVars, irVars, vmPayload, irPayload, histVars, errId>>

\* mutant: the error of the wait is dropped
VMDeleteWaitResultDropped(o) == "ok"

\* what Delete returns for the outcome of the wait
VMDeleteWaitResult(o) == IF o = "ok" THEN "ok" ELSE "err_wait"

\* line 293: future.WaitForCompletionRef; the deletion completes, and the object is
\* gone, or it fails
VMDelete_Wait ==
    /\ res = "vmext"
    /\ pc = "delete_wait"
    /\ \E o \in Outcomes :
          /\ calls' = Append(calls, Call("Wait", key, o))
          /\ lro' = NoLro
          /\ vmRemote' = IF o = "ok" THEN RemoteRemove(vmRemote, key, VMZero) ELSE vmRemote
          /\ Return(VMDeleteWaitResult(o))
    /\ UNCHANGED <<configVars, cfg, d, irVars, localVars, histVars, errId>>

----------------------------------------------------------------------------
\* azurerm_data_factory_integration_runtime: configuration and remote objects

IRTypes == {"SelfHosted", "Managed"}
Descriptions == {"", "nightly loads"}
NodeSizes == {"Standard_D8_v3"}
NodeCounts == {2, 4}
MaxNodeExecutions == {4, 8}
VNetIds == {"", "vnet1"}
Subnets == {"", "subnet1"}
CPLocations == {"westus"}

ComputePropertiesValues ==
    [location : CPLocations, node_size : NodeSizes, node_count : NodeCounts,
     max_node_executions : MaxNodeExecutions, vnet_id : VNetIds, subnet : Subnets]

\* compute_properties is a list of at most one block (MaxItems: 1)
ComputePropertiesLists == {<< >>} \cup {<<c>> : c \in ComputePropertiesValues}

IREmptyData ==
    [id |-> NoId, name |-> "", resource_group_name |-> "", data_factory_name |-> "",
     type |-> "", description |-> "", compute_properties |-> << >>,
     auth_key_1 |-> "", auth_key_2 |-> ""]

\* the configurations of the schema; a behaviour keeps the one it starts with
IRConfigs ==
    {[IREmptyData EXCEPT !.name = IRKey[3], !.resource_group_name = IRKey[1],
                         !.data_factory_name = IRKey[2], !.type = t, !.description = desc,
                         !.compute_properties = cp] :
        t \in IRTypes, desc \in Descriptions, cp \in ComputePropertiesLists}

IRZero ==
    [present |-> FALSE, id |-> NoId, name |-> "", type |-> "", description |-> "",
     cp |-> NilCP]

\* a self-hosted runtime put at key k by another actor
IRForeign(k) ==
    [present |-> TRUE, id |-> IRIdOf(k), name |-> k[3], type |-> "SelfHosted",
     description |-> "made elsewhere", cp |-> NilCP]

\* what the remote system holds at k once CreateOrUpdate of payload p has returned
IRStored(k, p) ==
    [present |-> TRUE, id |-> IRIdOf(k), name |-> k[3], type |-> p.type,
     description |-> p.description, cp |-> p.cp]

\* int32(n): node_count and max_node_executions are IntBetween(2, 8), which int32 keeps
Int32(n) == n

----------------------------------------------------------------------------
\* expandAzureDataFactoryIntegrationRuntimeComputeProperties and
\* flattenAzureDataFactoryIntegrationRuntimeComputeProperties

\* mutant: one value alone is taken for none
ExpandVNetPropertiesLenient(vnetID, subnet) ==
    IF vnetID # "" /\ subnet # ""
    THEN [status |-> "ok", vnetNil |-> FALSE, VNetID |-> vnetID, Subnet |-> subnet]
    ELSE [status |-> "ok", vnetNil |-> TRUE, VNetID |-> "", Subnet |-> ""]

\* lines 331-340: the vnet properties: both values, or an error for one alone, or nil
ExpandVNetProperties(vnetID, subnet) ==
    IF vnetID # "" /\ subnet # ""
    THEN [status |-> "ok", vnetNil |-> FALSE, VNetID |-> vnetID, Subnet |-> subnet]
    ELSE IF vnetID # "" \/ subnet # ""
    THEN [status |-> "error", vnetNil |-> TRUE, VNetID |-> "", Subnet |-> ""]
    ELSE [status |-> "ok", vnetNil |-> TRUE, VNetID |-> "", Subnet |-> ""]

\* computeProperties[0] of an empty list is an index out of range: the handler panics
ExpandComputeProperties(computeProperties) ==
    IF Len(computeProperties) = 0
    THEN [status |-> "panic", cp |-> NilCP]
    ELSE LET config == computeProperties[1]
             vnet == ExpandVNetProperties(config.vnet_id, config.subnet)
         IN  IF vnet.status = "error"
             THEN [status |-> "error", cp |-> NilCP]
             ELSE [status |-> "ok",
                   cp |-> [nil |-> FALSE,
                           Location |-> config.location,
                           NodeSize |-> config.node_size,
                           NumberOfNodes |-> Int32(config.node_count),
                           MaxParallelExecutionsPerNode |-> Int32(config.max_node_executions),
                           vnetNil |-> vnet.vnetNil,
                           VNetID |-> vnet.VNetID,
                           Subnet |-> vnet.Subnet]]

\* mutant: vnet_id and subnet are written whether or not there are vnet properties
FlattenKeysWithVNet(properties) ==
    {"location", "node_size", "node_count", "max_node_executions", "vnet_id", "subnet"}

\* the keys of the map that flatten builds
FlattenKeys(properties) ==
    {"location", "node_size", "node_count", "max_node_executions"}
        \cup (IF properties.vnetNil THEN {} ELSE {"vnet_id", "subnet"})

\* a list of no map for nil, else of one map
FlattenComputeProperties(properties) ==
    IF properties.nil THEN << >>
    ELSE << [k \in FlattenKeys(properties) |->
                CASE k = "location" -> properties.Location
                  [] k = "node_size" -> properties.NodeSize
                  [] k = "node_count" -> properties.NumberOfNodes
                  [] k = "max_node_executions" -> properties.MaxParallelExecutionsPerNode
                  [] k = "vnet_id" -> properties.VNetID
                  [] k = "subnet" -> properties.Subnet] >>

\* d.Set("compute_properties", v): a block of the schema for each map; an attribute
\* the map has no key for gets its zero value
SetComputeProperties(v) ==
    [i \in 1..Len(v) |->
        LET m == v[i]
        IN  [location |-> IF "location" \in DOMAIN m THEN m["location"] ELSE "",
             node_size |-> IF "node_size" \in DOMAIN m THEN m["node_size"] ELSE "",
             node_count |-> IF "node_count" \in DOMAIN m THEN m["node_count"] ELSE 0,
             max_node_executions |->
                 IF "max_node_executions" \in DOMAIN m THEN m["max_node_executions"] ELSE 0,
             vnet_id |-> IF "vnet_id" \in DOMAIN m THEN m["vnet_id"] ELSE "",
             subnet |-> IF "subnet" \in DOMAIN m THEN m["subnet"] ELSE ""]]

----------------------------------------------------------------------------
\* The host and azurerm_data_factory_integration_runtime

IRCreateData(c) == [c EXCEPT !.id = NoId]

\* auth_key_1 and auth_key_2 are Computed: the stored values stay
IRUpdateData(c, dd) ==
    [c EXCEPT !.id = dd.id, !.auth_key_1 = dd.auth_key_1, !.auth_key_2 = dd.auth_key_2]

IRHostCreate ==
    /\ res = "ir"
    /\ ird.id = NoId
    /\ Invoke("Create", TRUE, ird.id, "ir_cu_check", "none")
    /\ ird' = IRCreateData(irCfg)
    /\ UNCHANGED <<configVars, vmVars, irCfg, irRemote>>

IRHostUpdate ==
    /\ res = "ir"
    /\ ird.id # NoId
    /\ Invoke("Update", FALSE, ird.id, "ir_cu_check", "none")
    /\ ird' = IRUpdateData(irCfg, ird)
    /\ UNCHANGED <<configVars, vmVars, irCfg, irRemote>>

IRHostRead ==
    /\ res = "ir"
    /\ ird.id # NoId
    /\ Invoke("Read", FALSE, ird.id, "ir_read", "none")
    /\ UNCHANGED <<configVars, vmVars, irVars>>

IRHostDelete ==
    /\ res = "ir"
    /\ ird.id # NoId
    /\ Invoke("Delete", FALSE, ird.id, "ir_delete", "none")
    /\ UNCHANGED <<configVars, vmVars, irVars>>

\* schema.ImportStatePassthrough
IRHostImport ==
    /\ res = "ir"
    /\ ird.id = NoId
    /\ \E id \in {IRIdOf(IRKey), BadId} :
          /\ Invoke("Import", FALSE, ird.id, "done", "ok")
          /\ ird' = [ird EXCEPT !.id = id]
    /\ UNCHANGED <<configVars, vmVars, irCfg, irRemote>>

\* another actor creates or deletes the integration runtime
IRExternalChange ==
    /\ res = "ir"
    /\ nEnv < MaxEnv
    /\ nEnv' = nEnv + 1
    /\ \E k \in IRKeys :
          irRemote' = [irRemote EXCEPT ![k] = IF irRemote[k].present THEN IRZero
                                              ELSE IRForeign(k)]
    /\ sinceDelete' = FALSE
    /\ UNCHANGED <<configVars, vmVars, irCfg, ird, localVars, pc, op, isNew, result, errId,
                   calls, lro, idAtStart, nOps>>

----------------------------------------------------------------------------
\* resourceArmDataFactoryIntegrationRuntimeCreateOrUpdate, step by step

\* resourceGroupName, dataFactoryName and name
IRConfigKey(dd) == <<dd.resource_group_name, dd.data_factory_name, dd.name>>

\* lines 152-167: the existence check
IRCreateOrUpdate_Check ==
    /\ res = "ir"
    /\ pc = "ir_cu_check"
    /\ key' = IRConfigKey(ird)
    /\ IF ShouldCheckExisting(requireImport, isNew)
       THEN \E f \in Faults :
              LET k == IRConfigKey(ird)
                  existing == RemoteGet(irRemote, k, f, IRZero)
              IN  /\ calls' = Append(calls, Call("Get", k,
                                     IF existing.status = "ok" /\ existing.idNil THEN "noid"
                                     ELSE existing.status))
                  /\ IF existing.status = "error"
                     THEN Return("err_check_presence") /\ errId' = errId
                     ELSE IF ~existing.idNil /\ existing.obj.id # NoId
                     THEN Return("err_exists") /\ errId' = existing.obj.id
                     ELSE Goto("ir_cu_build") /\ errId' = errId
       ELSE Goto("ir_cu_build") /\ UNCHANGED <<calls, errId>>
    /\ UNCHANGED <<configVars, vmVars, irVars, vmPayload, irPayload, histVars, lro>>

\* lines 169-195: the payload for the type of the runtime
IRBuildRuntime(dd) ==
    IF dd.type = "SelfHosted"
    THEN [status |-> "ok",
          payload |-> [type |-> "SelfHosted", description |-> dd.description, cp |-> NilCP]]
    ELSE LET e == ExpandComputeProperties(dd.compute_properties)
         IN  [status |-> e.status,
              payload |-> IF e.status = "ok"
                          THEN [type |-> "Managed", description |-> dd.description,
                                cp |-> e.cp]
                          ELSE IRZeroPayload]

IRCreateOrUpdate_Build ==
    /\ res = "ir"
    /\ pc = "ir_cu_build"
    /\ LET b == IRBuildRuntime(ird)
       IN  CASE b.status = "panic" -> Return("panic_index_out_of_range") /\ irPayload' = irPayload
             [] b.status = "error" -> Return("err_compute_properties") /\ irPayload' = irPayload
             [] OTHER -> Goto("ir_cu_submit") /\ irPayload' = b.payload
    /\ UNCHANGED <<configVars, vmVars, irVars, key, vmPayload, histVars, lro, calls, errId>>

\* lines 197-199: client.CreateOrUpdate, which returns when the runtime is stored
IRCreateOrUpdate_Submit ==
    /\ res = "ir"
    /\ pc = "ir_cu_submit"
    /\ \E o \in Outcomes :
          /\ calls' = Append(calls, Call("CreateOrUpdate", key, o))
          /\ IF o = "error"
             THEN Return("err_create_or_update") /\ irRemote' = irRemote
             ELSE /\ Goto("ir_cu_refetch")
                  /\ irRemote' = RemotePut(irRemote, key, IRStored(key, irPayload))
    /\ UNCHANGED <<configVars, vmVars, irCfg, ird, localVars, histVars, lro, errId>>

\* line 206: the re-fetched object has no ID
IRReadHasNoId(read) == read.idNil

\* lines 201-210: the re-fetch and d.SetId
IRCreateOrUpdate_Refetch ==
    /\ res = "ir"
    /\ pc = "ir_cu_refetch"
    /\ \E f \in Faults :
          LET read == RemoteGet(irRemote, key, f, IRZero)
          IN  /\ calls' = Append(calls, Call("Get", key,
                                 IF read.status = "ok" /\ read.idNil THEN "noid"
                                 ELSE read.status))
              /\ IF read.status # "ok"
                 THEN Return("err_refetch") /\ ird' = ird
                 ELSE IF IRReadHasNoId(read)
                 THEN Return("err_no_id") /\ ird' = ird
                 ELSE Goto("ir_read") /\ ird' = [ird EXCEPT !.id = read.obj.id]
    /\ UNCHANGED <<configVars, vmVars, irCfg, irRemote, localVars, histVars, lro, errId>>

----------------------------------------------------------------------------
\* resourceArmDataFactoryIntegrationRuntimeRead

\* lines 227-234: what Read does with a failed Get
IRReadOnFailure(resp, dd) ==
    IF ResponseWasNotFound(resp)
    THEN [ret |-> "ok", data |-> [dd EXCEPT !.id = NoId]]
    ELSE [ret |-> "err_read", data |-> dd]

\* lines 236-238
IRReadSetNames(dd, id, resp) ==
    [dd EXCEPT !.name = resp.name,
               !.resource_group_name = id.ResourceGroup,
               !.data_factory_name = PathGet(id.Path, "factories")]

\* lines 241-242
IRReadSetProps(dd, props) ==
    [dd EXCEPT !.description = props.description, !.type = props.type]

\* lines 254-255
IRReadSetCompute(dd, props) ==
    [dd EXCEPT !.compute_properties = SetComputeProperties(FlattenComputeProperties(props.cp))]

\* lines 219-259. resp.Properties.AsIntegrationRuntime() is the accessor the SDK
\* generates; whether it yields the properties of a runtime of a variant type is
\* the SDK's decision, so both answers (asBase) are possible here.
IRRead_Get ==
    /\ res = "ir"
    /\ pc = "ir_read"
    /\ LET id == ParseAzureResourceID(ird.id)
           k == <<id.ResourceGroup, PathGet(id.Path, "factories"),
                  PathGet(id.Path, "integrationruntimes")>>
       IN  IF ~id.ok
           THEN Return("err_parse_id") /\ UNCHANGED <<ird, calls, key>>
           ELSE \E f \in {"none", "error"}, asBase \in BOOLEAN :
                  LET resp == RemoteGet(irRemote, k, f, IRZero)
                      named == IRReadSetNames(ird, id, resp.obj)
                  IN  /\ calls' = Append(calls, Call("Get", k, resp.status))
                      /\ key' = k
                      /\ IF resp.status # "ok"
                         THEN /\ Return(IRReadOnFailure(resp, ird).ret)
                              /\ ird' = IRReadOnFailure(resp, ird).data
                         ELSE IF ~asBase
                         THEN /\ Return("ok")
                              /\ ird' = named
                         ELSE CASE resp.obj.type = "SelfHosted" ->
                                     /\ Goto("ir_read_keys")
                                     /\ ird' = IRReadSetProps(named, resp.obj)
                                [] resp.obj.type = "Managed" ->
                                     /\ Return("ok")
                                     /\ ird' = IRReadSetCompute(
                                                   IRReadSetProps(named, resp.obj), resp.obj)
                                [] OTHER ->
                                     /\ Return("ok")
                                     /\ ird' = IRReadSetProps(named, resp.obj)
    /\ UNCHANGED <<configVars, vmVars, irCfg, irRemote, vmPayload, irPayload, histVars,
                   lro, errId>>

\* lines 246-251: client.ListAuthKeys
IRRead_ListAuthKeys ==
    /\ res = "ir"
    /\ pc = "ir_read_keys"
    /\ \E o \in Outcomes :
          /\ calls' = Append(calls, Call("ListAuthKeys", key, o))
          /\ IF o = "error"
             THEN Return("err_list_auth_keys") /\ ird' = ird
             ELSE /\ Return("ok")
                  /\ ird' = [ird EXCEPT !.auth_key_1 = "key1", !.auth_key_2 = "key2"]
    /\ UNCHANGED <<configVars, vmVars, irCfg, irRemote, localVars, histVars, lro, errId>>

----------------------------------------------------------------------------
\* resourceArmDataFactoryIntegrationRuntimeDelete

\* what Delete returns for the outcome of client.Delete
IRDeleteResult(o) == IF o = "ok" THEN "ok" ELSE "err_delete"

\* lines 268-280: client.Delete returns when the runtime is gone, or fails
IRDelete ==
    /\ res = "ir"
    /\ pc = "ir_delete"
    /\ LET id == ParseAzureResourceID(ird.id)
           k == <<id.ResourceGroup, PathGet(id.Path, "factories"),
                  PathGet(id.Path, "integrationruntimes")>>
       IN  IF ~id.ok
           THEN Return("err_parse_id") /\ UNCHANGED <<calls, irRemote, key>>
           ELSE \E o \in Outcomes :
                  /\ calls' = Append(calls, Call("Delete", k, o))
                  /\ key' = k
                  /\ irRemote' = IF o = "ok" THEN RemoteRemove(irRemote, k, IRZero)
                                 ELSE irRemote
                  /\ Return(IRDeleteResult(o))
    /\ UNCHANGED <<configVars, vmVars, irCfg, ird, vmPayload, irPayload, histVars, lro,
                   errId>>

----------------------------------------------------------------------------
\* The specification

Init ==
    /\ res \in {"vmext", "ir"}
    /\ requireImport \in BOOLEAN
    /\ cfg \in (IF res = "vmext" THEN VMConfigs ELSE {VMEmptyData})
    /\ d = VMEmptyData
    /\ vmRemote = [k \in VMKeys |-> VMZero]
    /\ irCfg \in (IF res = "ir" THEN IRConfigs ELSE {IREmptyData})
    /\ ird = IREmptyData
    /\ irRemote = [k \in IRKeys |-> IRZero]
    /\ pc = "idle"
    /\ op = "none"
    /\ isNew = FALSE
    /\ result = "none"
    /\ errId = NoId
    /\ calls = << >>
    /\ key = NoKey
    /\ vmPayload = VMZeroPayload
    /\ irPayload = IRZeroPayload
    /\ lro = NoLro
    /\ idAtStart = NoId
    /\ sinceDelete = FALSE
    /\ nOps = 0
    /\ nEnv = 0

Next ==
    \/ VMHostCreate
    \/ VMHostUpdate
    \/ VMHostRead
    \/ VMHostDelete
    \/ VMHostImport
    \/ VMExternalChange
    \/ VMCreateUpdate_Check
    \/ VMCreateUpdate_Build
    \/ VMCreateUpdate_Submit
    \/ VMCreateUpdate_Wait
    \/ VMCreateUpdate_Refetch
    \/ VMRead
    \/ VMDelete_Call
    \/ VMDelete_Wait
    \/ IRHostCreate
    \/ IRHostUpdate
    \/ IRHostRead
    \/ IRHostDelete
    \/ IRHostImport
    \/ IRExternalChange
    \/ IRCreateOrUpdate_Check
    \/ IRCreateOrUpdate_Build
    \/ IRCreateOrUpdate_Submit
    \/ IRCreateOrUpdate_Refetch
    \/ IRRead_Get
    \/ IRRead_ListAuthKeys
    \/ IRDelete

Spec == Init /\ [][Next]_vars

----------------------------------------------------------------------------
\* Vocabulary of the properties

CreateOrUpdateOps == {"Create", "Update"}

\* the invocation has issued remote call m
Issued(m) == \E i \in 1..Len(calls) : calls[i].m = m

\* the invocation has issued remote call m and it succeeded
IssuedOk(m) == \E i \in 1..Len(calls) : calls[i].m = m /\ calls[i].out = "ok"

\* the ID and the data of the resource this behaviour follows
LocalId == IF res = "vmext" THEN d.id ELSE ird.id

\* the key the configuration of the VM extension resolves to, when it resolves
VMTargetResolves ==
    \/ /\ cfg.virtual_machine_name = ""
       /\ cfg.virtual_machine_id # NoId
       /\ ParseAzureResourceID(cfg.virtual_machine_id).ok
       /\ "virtualMachines" \in DOMAIN ParseAzureResourceID(cfg.virtual_machine_id).Path
    \/ /\ cfg.virtual_machine_name # ""
       /\ cfg.virtual_machine_id = NoId
       /\ cfg.resource_group_name # ""

VMTargetKey ==
    IF cfg.virtual_machine_name = ""
    THEN <<ParseAzureResourceID(cfg.virtual_machine_id).ResourceGroup,
           PathGet(ParseAzureResourceID(cfg.virtual_machine_id).Path, "virtualMachines"),
           cfg.name>>
    ELSE <<cfg.resource_group_name, cfg.virtual_machine_name, cfg.name>>

IRTargetKey == <<irCfg.resource_group_name, irCfg.data_factory_name, irCfg.name>>

\* a remote object exists at the identifier the configuration resolves to
TargetExists ==
    IF res = "vmext"
    THEN VMTargetResolves /\ VMTargetKey \in VMKeys /\ vmRemote[VMTargetKey].present
    ELSE IRTargetKey \in IRKeys /\ irRemote[IRTargetKey].present

TargetId ==
    IF res = "vmext" THEN vmRemote[VMTargetKey].id ELSE irRemote[IRTargetKey].id

\* the step is the existence-check step of a Create
ExistenceCheckStep ==
    /\ pc \in {"cu_check", "ir_cu_check"}
    /\ pc' # pc
    /\ op = "Create"

----------------------------------------------------------------------------
\* C1. Create of a new resource, with resources required to be imported, fails with
\* the already-exists error carrying the remote object's ID whenever a remote object
\* exists at the identifier the configuration resolves to (and the existence check is
\* answered), for the integration runtime and for the VM extension, whichever way
\* its parent is given; it then issues no CreateOrUpdate.
\* The VM extension makes the check with resGroup and vmName as they are before the
\* parent is resolved from virtual_machine_id, so the check misses the object.
C1_ExistingIsRejected ==
    [][(/\ ExistenceCheckStep
        /\ requireImport
        /\ TargetExists
        /\ calls' # calls
        /\ calls'[Len(calls')].out \notin {"error", "noid"})
       => (/\ pc' = "done"
           /\ result' = "err_exists"
           /\ errId' = TargetId
           /\ ~Issued("CreateOrUpdate")')]_vars

----------------------------------------------------------------------------
\* the validation failures of Create/Update: both or neither of virtual_machine_id
\* and virtual_machine_name, virtual_machine_name without resource_group_name, a
\* virtual_machine_id without virtualMachines, settings or protected_settings that
\* do not decode, one of vnet_id and subnet without the other
ValidationFailures ==
    {"err_conflicts_with", "err_one_of_vm", "err_rg_required", "err_no_vm_segment",
     "err_settings", "err_protected_settings", "err_compute_properties"}

ReturnedValidationFailure ==
    /\ pc = "done"
    /\ op \in CreateOrUpdateOps
    /\ result \in ValidationFailures

\* C2 as claimed. Create/Update returns every validation failure before it has issued
\* any remote call, the existence-check Get included.
C2_ValidationBeforeAnyCall == ReturnedValidationFailure => calls = << >>

\* C2, amended. Create/Update returns every validation failure before it issues
\* CreateOrUpdate or any other call that changes the remote system. The one remote
\* call that precedes the failure is the existence-check Get, made exactly when
\* resources must be imported and the resource is new and the schema has let the
\* configuration through to the handler; in every other case no remote call is made.
C2_ValidationBeforeSubmit ==
    ReturnedValidationFailure =>
        /\ ~Issued("CreateOrUpdate")
        /\ IF requireImport /\ isNew /\ result # "err_conflicts_with"
           THEN Len(calls) = 1 /\ calls[1].m = "Get"
           ELSE calls = << >>

C2_Witness ==
    /\ ReturnedValidationFailure
    /\ result = "err_settings"
    /\ requireImport
    /\ isNew
    /\ Len(calls) = 1

----------------------------------------------------------------------------
\* equality of JSON texts up to the order of the keys
JsonEquivalent(a, b) ==
    /\ a.kind = b.kind
    /\ {a.pairs[i] : i \in 1..Len(a.pairs)} = {b.pairs[i] : i \in 1..Len(b.pairs)}

\* equality of compute_properties up to the normalization of the location
ComputeEquivalent(a, b) ==
    /\ Len(a) = Len(b)
    /\ \A i \in 1..Len(a) :
          /\ NormalizeLocation(a[i].location) = NormalizeLocation(b[i].location)
          /\ [a[i] EXCEPT !.location = ""] = [b[i] EXCEPT !.location = ""]

\* Create has returned success, the resource is in the state, and the remote system
\* holds exactly what was submitted
CreatedAndStored ==
    /\ pc = "done"
    /\ op = "Create"
    /\ result = "ok"
    /\ LocalId # NoId
    /\ IF res = "vmext"
       THEN key \in VMKeys /\ vmRemote[key] = VMStored(key, vmPayload)
       ELSE key \in IRKeys /\ irRemote[key] = IRStored(key, irPayload)

\* C3. When Create succeeds against a remote system that stores exactly what was
\* submitted, the delegated Read leaves every configured attribute that is not
\* write-only equal to the submitted value, up to the normalization of the location
\* and the order of JSON keys.
\* Settings of "{}" are submitted as an empty object and read back as the empty
\* string, which is no JSON text at all.
C3_ReadBackEqualsSubmitted ==
    CreatedAndStored =>
        IF res = "vmext"
        THEN /\ d.name = cfg.name
             /\ d.virtual_machine_id = cfg.virtual_machine_id
             /\ d.publisher = cfg.publisher
             /\ d.type = cfg.type
             /\ d.type_handler_version = cfg.type_handler_version
             /\ d.auto_upgrade_minor_version = cfg.auto_upgrade_minor_version
             /\ JsonEquivalent(d.settings, cfg.settings)
             /\ d.tags = cfg.tags
        ELSE /\ ird.name = irCfg.name
             /\ ird.resource_group_name = irCfg.resource_group_name
             /\ ird.data_factory_name = irCfg.data_factory_name
             /\ ird.type = irCfg.type
             /\ ird.description = irCfg.description
             /\ ComputeEquivalent(ird.compute_properties, irCfg.compute_properties)

----------------------------------------------------------------------------
\* Read was invoked by the host with a well-formed identifier and has returned
ReadReturned ==
    /\ pc = "done"
    /\ op = "Read"
    /\ ParseAzureResourceID(idAtStart).ok
    /\ calls # << >>

\* C4. Read with a well-formed stored identifier: when the Get reports not-found the
\* local identifier becomes empty and Read returns success; when the Get fails in any
\* other way Read returns an error and the local identifier is unchanged.
C4_ReadNotFoundClearsId ==
    ReadReturned =>
        /\ calls[1].m = "Get"
        /\ calls[1].out = "notfound" => (LocalId = NoId /\ result = "ok")
        /\ calls[1].out = "error" => (LocalId = idAtStart /\ result = "err_read")

C4_Witness ==
    /\ ReadReturned
    /\ calls[1].out = "notfound"
    /\ idAtStart # NoId
    /\ LocalId = NoId
    /\ result = "ok"

----------------------------------------------------------------------------
\* the CreateOrUpdate call of the running invocation
SubmitCall == calls[CHOOSE i \in 1..Len(calls) : calls[i].m = "CreateOrUpdate"]

\* C5. Create/Update of the VM extension issues CreateOrUpdate only if one way of
\* naming the parent works: with virtual_machine_name empty, virtual_machine_id is
\* non-empty, parses and has a virtualMachines segment, and the resource group and
\* the VM name of the call come from that ID; with virtual_machine_name non-empty,
\* resource_group_name is non-empty and the call has those two values. In every
\* other case the handler returns an error.
\* (d is read where the handler has not yet written to it: up to the delegated Read.)
C5_SubmitNeedsResolvedParent ==
    (res = "vmext" /\ op \in CreateOrUpdateOps) =>
        /\ (pc \in {"cu_wait", "cu_refetch"} \/ (pc = "done" /\ result # "ok" /\ d.id = idAtStart))
             => (Issued("CreateOrUpdate") =>
                   IF d.virtual_machine_name = ""
                   THEN LET id == ParseAzureResourceID(d.virtual_machine_id)
                        IN  /\ d.virtual_machine_id # NoId
                            /\ id.ok
                            /\ "virtualMachines" \in DOMAIN id.Path
                            /\ SubmitCall.k[1] = id.ResourceGroup
                            /\ SubmitCall.k[2] = id.Path["virtualMachines"]
                   ELSE /\ d.resource_group_name # ""
                        /\ SubmitCall.k[1] = d.resource_group_name
                        /\ SubmitCall.k[2] = d.virtual_machine_name)
        /\ (pc = "done" /\ ~Issued("CreateOrUpdate")) => result # "ok"

C5_Witness ==
    /\ res = "vmext"
    /\ op = "Create"
    /\ pc = "cu_wait"
    /\ d.virtual_machine_name = ""
    /\ d.virtual_machine_id = GoodVMId
    /\ SubmitCall.k = VMKey

----------------------------------------------------------------------------
\* Create/Update of a Managed runtime with one compute_properties block
ManagedWithCompute ==
    /\ res = "ir"
    /\ op \in CreateOrUpdateOps
    /\ irCfg.type = "Managed"
    /\ Len(irCfg.compute_properties) = 1

\* Create/Update has returned from building the payload, with no call after the
\* existence check
ReturnedFromBuild ==
    /\ pc = "done"
    /\ ~Issued("CreateOrUpdate")
    /\ result \notin {"err_check_presence", "err_exists"}

\* C6. expandAzureDataFactoryIntegrationRuntimeComputeProperties returns an error
\* when exactly one of vnet_id and subnet is non-empty; with both it returns compute
\* properties whose VNetProperties carry those two values; with neither it returns
\* compute properties without VNetProperties, and no error.
C6_ExpandVNetPair ==
    ManagedWithCompute =>
        LET c == irCfg.compute_properties[1]
            one == (c.vnet_id = "") # (c.subnet = "")
            both == c.vnet_id # "" /\ c.subnet # ""
        IN  /\ pc = "ir_cu_submit" =>
                  /\ ~one
                  /\ ~irPayload.cp.nil
                  /\ IF both
                     THEN /\ ~irPayload.cp.vnetNil
                          /\ irPayload.cp.VNetID = c.vnet_id
                          /\ irPayload.cp.Subnet = c.subnet
                     ELSE irPayload.cp.vnetNil
            /\ ReturnedFromBuild => (one /\ result = "err_compute_properties")
            /\ (one /\ pc = "done") =>
                  result \in {"err_compute_properties", "err_check_presence", "err_exists"}

C6_Witness ==
    /\ ManagedWithCompute
    /\ ReturnedFromBuild
    /\ irCfg.compute_properties[1].vnet_id # ""
    /\ irCfg.compute_properties[1].subnet = ""
    /\ result = "err_compute_properties"

----------------------------------------------------------------------------
\* C7. Create/Update of a Managed integration runtime with no compute_properties
\* block returns an error value: it does not crash and it submits no payload; a
\* SelfHosted runtime needs no compute_properties.
\* computeProperties[0] is read from the empty list, and the handler panics.
C7_ManagedNeedsCompute ==
    (res = "ir" /\ op \in CreateOrUpdateOps /\ irCfg.compute_properties = << >>) =>
        /\ result # "panic_index_out_of_range"
        /\ irCfg.type = "Managed" => ~Issued("CreateOrUpdate")
        /\ (irCfg.type = "Managed" /\ ReturnedFromBuild) => result = "err_compute_properties"
        /\ (irCfg.type = "SelfHosted" /\ pc = "done") => result # "err_compute_properties"

----------------------------------------------------------------------------
\* the remote object at the running handler's key is absent
RemoteAbsentAtKey ==
    IF res = "vmext" THEN key \in VMKeys /\ ~vmRemote[key].present
    ELSE key \in IRKeys /\ ~irRemote[key].present

\* C8. After Delete has returned success the remote object is absent, so a Read that
\* follows with the same stored identifier (no other actor having touched the remote
\* system) does not find it and clears the local identifier; Delete does not return
\* success while the deletion is pending.
C8_DeleteThenReadFindsNothing ==
    /\ (pc = "done" /\ op = "Delete" /\ result = "ok") =>
          /\ lro = NoLro
          /\ sinceDelete => RemoteAbsentAtKey
    /\ lro.kind = "delete" => (pc = "delete_wait" /\ result = "none")
    /\ (ReadReturned /\ sinceDelete) =>
          /\ calls[1].out # "ok"
          /\ calls[1].out = "notfound" => (LocalId = NoId /\ result = "ok")

C8_Witness ==
    /\ ReadReturned
    /\ sinceDelete
    /\ idAtStart # NoId
    /\ calls[1].out = "notfound"
    /\ LocalId = NoId
    /\ result = "ok"

----------------------------------------------------------------------------
\* C9. For a valid compute_properties value c, flattening the result of expanding c
\* gives node_size, node_count, max_node_executions and location equal to those of
\* c, and the keys vnet_id and subnet if and only if c sets both.
C9_FlattenOfExpand ==
    (res = "ir" /\ ~irPayload.cp.nil) =>
        LET c == irCfg.compute_properties[1]
            f == FlattenComputeProperties(irPayload.cp)
            both == c.vnet_id # "" /\ c.subnet # ""
        IN  /\ Len(f) = 1
            /\ f[1]["location"] = c.location
            /\ f[1]["node_size"] = c.node_size
            /\ f[1]["node_count"] = c.node_count
            /\ f[1]["max_node_executions"] = c.max_node_executions
            /\ "vnet_id" \in DOMAIN f[1] <=> both
            /\ "subnet" \in DOMAIN f[1] <=> both
            /\ both => (f[1]["vnet_id"] = c.vnet_id /\ f[1]["subnet"] = c.subnet)

C9_Witness ==
    /\ res = "ir"
    /\ ~irPayload.cp.nil
    /\ irCfg.compute_properties[1].node_count = 4
    /\ irCfg.compute_properties[1].max_node_executions = 4
    /\ irCfg.compute_properties[1].vnet_id = ""
    /\ irCfg.compute_properties[1].subnet = ""
    /\ pc = "done"
    /\ op = "Create"
    /\ result = "ok"
    /\ ird.compute_properties = irCfg.compute_properties

----------------------------------------------------------------------------
SubmitIndex == CHOOSE i \in 1..Len(calls) : calls[i].m = "CreateOrUpdate"

\* the Gets after CreateOrUpdate: the re-fetch, then the Get of the delegated Read
GetsAfterSubmit == {i \in 1..Len(calls) : i > SubmitIndex /\ calls[i].m = "Get"}

RefetchIndex == CHOOSE i \in GetsAfterSubmit : \A j \in GetsAfterSubmit : i <= j

IdReportedFor(k) == IF res = "vmext" THEN VMExtensionIdOf(k) ELSE IRIdOf(k)

SubmitFailures == {"err_create_or_update", "err_wait", "err_refetch", "err_no_id"}

\* C10. In Create/Update the local identifier is written only after CreateOrUpdate
\* (and, for the VM extension, the wait) has succeeded and the re-fetch has returned
\* an ID, and it is written with that ID (the delegated Read may then clear it on
\* not-found); when CreateOrUpdate, the wait or the re-fetch fails, or the re-fetch
\* reports no ID, the handler returns an error and the identifier is unchanged.
C10_IdWrittenAfterRefetch ==
    (op \in CreateOrUpdateOps /\ pc # "idle") =>
        /\ LocalId # idAtStart =>
              /\ IssuedOk("CreateOrUpdate")
              /\ res = "vmext" => IssuedOk("Wait")
              /\ GetsAfterSubmit # {}
              /\ calls[RefetchIndex].out = "ok"
              /\ \/ LocalId = IdReportedFor(calls[RefetchIndex].k)
                 \/ /\ LocalId = NoId
                    /\ \E j \in GetsAfterSubmit : j > RefetchIndex /\ calls[j].out = "notfound"
        /\ (pc = "done" /\ result \in SubmitFailures) => LocalId = idAtStart
        /\ (pc = "done" /\ Issued("CreateOrUpdate")
              /\ \/ ~IssuedOk("CreateOrUpdate")
                 \/ (Issued("Wait") /\ ~IssuedOk("Wait"))
                 \/ (GetsAfterSubmit # {} /\ calls[RefetchIndex].out # "ok"))
              => (result \in SubmitFailures /\ LocalId = idAtStart)

C10_Witness ==
    /\ op = "Create"
    /\ pc \in {"read", "ir_read"}
    /\ idAtStart = NoId
    /\ LocalId # NoId
    /\ LocalId = IdReportedFor(calls[RefetchIndex].k)

----------------------------------------------------------------------------
\* the handler is at the Get of Read, called by the host or delegated to
VMAtRead == res = "vmext" /\ pc = "read"

\* Create/Update has issued CreateOrUpdate with a payload
VMSubmitted == res = "vmext" /\ op \in CreateOrUpdateOps /\ Issued("CreateOrUpdate")

\* the object a JSON text of kind object stands for
DecodedObject(text) == {text.pairs[i] : i \in 1..Len(text.pairs)}

\* C11. Read of the VM extension never writes protected_settings: over every step
\* of Read, whatever the Get returns (an error, not-found, an object with or without
\* protected settings in the response), protected_settings after the step equals
\* its value before; and when Create/Update has issued CreateOrUpdate with a
\* non-empty protected_settings, the payload carries the decoded object.
C11_ReadKeepsProtectedSettings ==
    /\ [][VMAtRead => d'.protected_settings = d.protected_settings]_vars
    /\ [](VMSubmitted /\ d.protected_settings # JEmpty =>
            vmPayload.protected = PtrMap(DecodedObject(d.protected_settings)))

C11_Witness ==
    /\ res = "vmext"
    /\ op = "Create"
    /\ pc = "done"
    /\ result = "ok"
    /\ d.id # NoId
    /\ calls[Len(calls)] = Call("Get", VMKey, "ok")
    /\ d.protected_settings = JSecret
    /\ vmPayload.protected = PtrMap({<<"a", 9>>})

----------------------------------------------------------------------------
\* Create/Update has returned success
CreateOrUpdateSucceeded == op \in CreateOrUpdateOps /\ pc = "done" /\ result = "ok"

\* C12. Whenever Create/Update of either handler returns success, the local
\* identifier is non-empty and is the ID the remote system reported at the re-fetch,
\* whatever other actors do to the remote object while the handler runs, a deletion
\* between the re-fetch and the Get of the delegated Read included.
C12_SuccessKeepsRefetchedId ==
    CreateOrUpdateSucceeded =>
        /\ LocalId # NoId
        /\ GetsAfterSubmit # {}
        /\ LocalId = IdReportedFor(calls[RefetchIndex].k)

====
